---- MODULE Spec2Model ----
(***************************************************************************)
(* Model of the Commons Edition (CE) piece-visibility code:                *)
(*   - cmPieceMetadataServiceHooks.filterPieces (the visibility resolver), *)
(*   - cmPlatformPieceController (GET / PATCH config, PATCH single piece), *)
(*   - the UI predicate isVisible documented for piece-actions.tsx,        *)
(*   - cmPlatformProjectController / cmPlatformProjectService (projects),*)
(*   - cmFlagsHooks.modify (feature flags),                                *)
(* and of the trigger polling protocol (pollingHelper), whose code is not  *)
(* part of the sources and is modelled from the specification.             *)
(***************************************************************************)
EXTENDS Integers, Sequences, FiniteSets, TLC

VARIABLES platform, last, trig, run, emitted, fetched, projects, clock, reply,
          conc

vars ==
  <<platform, last, trig, run, emitted, fetched, projects, clock, reply, conc>>
pieceVars == <<platform, last>>
pollVars == <<trig, run, emitted, fetched>>
projVars == <<projects, clock, reply>>
concVars == <<conc>>

(***************************************************************************)
(* Bounds                                                                  *)
(***************************************************************************)
\* longest filteredPieceNames list a bulk PATCH body carries
MaxNames == 2
\* longest candidate piece list handed to filterPieces
MaxCandidates == 3

\* the installed pieces (PieceDescriptor.name); metadata is opaque
Pieces == {"slack", "sheets", "gmail"}
\* request.principal's user.platformRole
Roles == {"ADMIN", "MEMBER"}
\* the platform of the principal; NoPlatform is a nil platformId
PlatformId == "P1"
NoPlatform == "nil"

RECURSIVE SeqsUpTo(_, _)
SeqsUpTo(S, n) ==
  IF n = 0 THEN {<<>>}
  ELSE LET shorter == SeqsUpTo(S, n - 1)
       IN shorter \cup {Append(s, x) : s \in {t \in shorter : Len(t) = n - 1}, x \in S}

Distinct(s) == \A i, j \in 1..Len(s) : i # j => s[i] # s[j]

\* bodies of PATCH '/': any string[] (duplicates allowed)
NameLists == SeqsUpTo(Pieces, MaxNames)
\* candidate lists: piece names are unique in the registry
CandidateLists == {s \in SeqsUpTo(Pieces, MaxCandidates) : Distinct(s)}

(***************************************************************************)
(* Array helpers (Array.prototype.includes / filter / push)                *)
(***************************************************************************)
includes(names, x) == \E i \in 1..Len(names) : names[i] = x

without(names, x) == SelectSeq(names, LAMBDA n : n # x)

Count(names, x) == Cardinality({i \in 1..Len(names) : names[i] = x})

\* s is t with some elements dropped, order kept
RECURSIVE IsSubSeq(_, _)
IsSubSeq(s, t) ==
  IF s = <<>> THEN TRUE
  ELSE IF t = <<>> THEN FALSE
  ELSE IF Head(s) = Head(t) THEN IsSubSeq(Tail(s), Tail(t))
  ELSE IsSubSeq(s, Tail(t))

(***************************************************************************)
(* The platform record: filteredPieceNames may be unset (namesSet = FALSE, *)
(* the code guards it with "|| []" and "!platform.filteredPieceNames"),    *)
(* filteredPieceBehavior may be unset ("UNSET", guarded with "|| BLOCKED").*)
(***************************************************************************)
Behaviors == {"ALLOWED", "BLOCKED"}

mkPlatform(set, names, behavior) ==
  [namesSet |-> set, filteredPieceNames |-> names, filteredPieceBehavior |-> behavior]

\* platform.filteredPieceNames || []
namesOrEmpty(p) == IF p.namesSet THEN p.filteredPieceNames ELSE <<>>

\* platform.filteredPieceBehavior || FilteredPieceBehavior.BLOCKED
behaviorOrBlocked(p) ==
  IF p.filteredPieceBehavior = "UNSET" THEN "BLOCKED" ELSE p.filteredPieceBehavior

(***************************************************************************)
(* The visibility resolver: cmPieceMetadataServiceHooks.filterPieces       *)
(***************************************************************************)
\* defaultPieceHooks.filterPieces: "return all pieces"
defaultFilterPieces(pieces) == pieces

filterPredicate(p, name) ==
  IF p.filteredPieceBehavior = "ALLOWED"
  THEN includes(p.filteredPieceNames, name)
  ELSE ~includes(p.filteredPieceNames, name)

filterPiecesMutEmptyHidesAll(p, includeHidden, platformId, pieces) ==
  IF includeHidden \/ platformId = NoPlatform
  THEN defaultFilterPieces(pieces)
  ELSE IF ~p.namesSet \/ Len(p.filteredPieceNames) = 0
  THEN <<>>
  ELSE SelectSeq(pieces, LAMBDA c : filterPredicate(p, c))

filterPiecesMutSwapped(p, includeHidden, platformId, pieces) ==
  IF includeHidden \/ platformId = NoPlatform
  THEN defaultFilterPieces(pieces)
  ELSE IF ~p.namesSet \/ Len(p.filteredPieceNames) = 0
  THEN pieces
  ELSE SelectSeq(pieces, LAMBDA c : ~filterPredicate(p, c))

filterPiecesMutDropsFirst(p, includeHidden, platformId, pieces) ==
  IF includeHidden \/ platformId = NoPlatform
  THEN defaultFilterPieces(pieces)
  ELSE IF ~p.namesSet \/ Len(p.filteredPieceNames) = 0
  THEN pieces
  ELSE LET kept == SelectSeq(pieces, LAMBDA c : filterPredicate(p, c))
       IN IF kept = <<>> THEN kept ELSE Tail(kept)

filterPieces(p, includeHidden, platformId, pieces) ==
  IF includeHidden \/ platformId = NoPlatform
  THEN defaultFilterPieces(pieces)
  ELSE IF ~p.namesSet \/ Len(p.filteredPieceNames) = 0
  THEN pieces
  ELSE SelectSeq(pieces, LAMBDA c : filterPredicate(p, c))

(***************************************************************************)
(* The UI predicate of piece-actions.tsx (implementation notes): it reads  *)
(* platform.filteredPieceNames.includes without a guard, so it yields no   *)
(* value (throws) when the list is unset; "true" then does not hold.       *)
(***************************************************************************)
isVisible(p, pieceName) ==
  /\ p.namesSet
  /\ LET filtered == includes(p.filteredPieceNames, pieceName)
         behavior == behaviorOrBlocked(p)
     IN IF behavior = "BLOCKED" THEN ~filtered ELSE filtered

(***************************************************************************)
(* Single-piece toggle: the list written by router.patch('/:pieceName')    *)
(* and by cmPlatformPieceService.togglePieceVisibility                     *)
(***************************************************************************)
routerUpdatedNamesMutAlwaysPush(p, pieceName, visible) ==
  LET currentNames == namesOrEmpty(p)
      behavior == behaviorOrBlocked(p)
  IN IF behavior = "BLOCKED"
     THEN IF ~visible THEN Append(currentNames, pieceName)
          ELSE IF visible /\ includes(currentNames, pieceName)
          THEN without(currentNames, pieceName)
          ELSE currentNames
     ELSE IF visible THEN Append(currentNames, pieceName)
          ELSE IF ~visible /\ includes(currentNames, pieceName)
          THEN without(currentNames, pieceName)
          ELSE currentNames

routerUpdatedNames(p, pieceName, visible) ==
  LET currentNames == namesOrEmpty(p)
      behavior == behaviorOrBlocked(p)
  IN IF behavior = "BLOCKED"
     THEN IF ~visible /\ ~includes(currentNames, pieceName)
          THEN Append(currentNames, pieceName)
          ELSE IF visible /\ includes(currentNames, pieceName)
          THEN without(currentNames, pieceName)
          ELSE currentNames
     ELSE IF visible /\ ~includes(currentNames, pieceName)
          THEN Append(currentNames, pieceName)
          ELSE IF ~visible /\ includes(currentNames, pieceName)
          THEN without(currentNames, pieceName)
          ELSE currentNames

serviceUpdatedNamesMutSwapped(p, pieceName, visible) ==
  LET currentNames == namesOrEmpty(p)
      behavior == behaviorOrBlocked(p)
  IN IF behavior = "ALLOWED"
     THEN IF ~visible /\ ~includes(currentNames, pieceName)
          THEN Append(currentNames, pieceName)
          ELSE IF visible /\ includes(currentNames, pieceName)
          THEN without(currentNames, pieceName)
          ELSE currentNames
     ELSE IF visible /\ ~includes(currentNames, pieceName)
          THEN Append(currentNames, pieceName)
          ELSE IF ~visible /\ includes(currentNames, pieceName)
          THEN without(currentNames, pieceName)
          ELSE currentNames

serviceUpdatedNames(p, pieceName, visible) ==
  LET currentNames == namesOrEmpty(p)
      behavior == behaviorOrBlocked(p)
  IN IF behavior = "BLOCKED"
     THEN IF ~visible /\ ~includes(currentNames, pieceName)
          THEN Append(currentNames, pieceName)
          ELSE IF visible /\ includes(currentNames, pieceName)
          THEN without(currentNames, pieceName)
          ELSE currentNames
     ELSE IF visible /\ ~includes(currentNames, pieceName)
          THEN Append(currentNames, pieceName)
          ELSE IF ~visible /\ includes(currentNames, pieceName)
          THEN without(currentNames, pieceName)
          ELSE currentNames

\* platformService.update({ id, filteredPieceNames }): only the list is written
updateNamesMutResetsBehavior(p, names) == mkPlatform(TRUE, names, "BLOCKED")

updateNames(p, names) ==
  [p EXCEPT !.namesSet = TRUE, !.filteredPieceNames = names]

\* platformService.update({ id, filteredPieceNames, filteredPieceBehavior })
updateConfigMutKeepsBehavior(p, names, behavior) ==
  [p EXCEPT !.namesSet = TRUE, !.filteredPieceNames = names]

updateConfig(p, names, behavior) == mkPlatform(TRUE, names, behavior)

isPlatformAdminMutAnyUser(role) == TRUE

isPlatformAdmin(role) == role = "ADMIN"

(***************************************************************************)
(* State: the stored platform record and the last request with its reply.  *)
(***************************************************************************)
\* what a GET keeps of the request before it, when that was a PATCH of the
\* whole config that succeeded
NoPrior ==
  [op |-> "none", pre |-> mkPlatform(FALSE, <<>>, "UNSET"), names |-> <<>>,
   behavior |-> ""]

prior(r) ==
  IF r.op = "patch" /\ r.error = ""
  THEN [op |-> "patch", pre |-> r.pre, names |-> r.names, behavior |-> r.behavior]
  ELSE NoPrior

\* touched: the handler called platformService (a read or a write)
NoRequest ==
  [op |-> "none", role |-> "ADMIN", pieceName |-> "", visible |-> FALSE,
   includeHidden |-> FALSE, platformId |-> NoPlatform, pieces |-> <<>>,
   pre |-> mkPlatform(FALSE, <<>>, "UNSET"), names |-> <<>>,
   behavior |-> "", error |-> "", touched |-> FALSE, prior |-> NoPrior]

\* a platform as created: BLOCKED with an empty list, or the columns unset
InitPlatforms ==
  {mkPlatform(TRUE, <<>>, "BLOCKED"), mkPlatform(FALSE, <<>>, "BLOCKED"),
   mkPlatform(TRUE, <<>>, "UNSET"), mkPlatform(FALSE, <<>>, "UNSET")}

InitPieces ==
  /\ platform \in InitPlatforms
  /\ last = NoRequest

AuthorizationError(op, role) ==
  [NoRequest EXCEPT !.op = op, !.role = role, !.pre = platform,
                    !.error = "AUTHORIZATION"]

\* router.post('/sync'): the piece catalogue is synced, the platform record
\* is not used
SyncPieces(role) ==
  /\ last' = IF ~isPlatformAdmin(role) THEN AuthorizationError("sync", role)
             ELSE [NoRequest EXCEPT !.op = "sync", !.role = role, !.pre = platform]
  /\ UNCHANGED <<platform, pollVars, projVars, concVars>>

\* router.get('/')
GetFilteredPieces(role) ==
  /\ last' = IF ~isPlatformAdmin(role) THEN AuthorizationError("get", role)
             ELSE [NoRequest EXCEPT !.op = "get", !.role = role, !.pre = platform,
                                    !.names = namesOrEmpty(platform),
                                    !.behavior = behaviorOrBlocked(platform),
                                    !.touched = TRUE, !.prior = prior(last)]
  /\ UNCHANGED <<platform, pollVars, projVars, concVars>>

\* router.patch('/')
UpdateFilteredPieces(role, names, behavior) ==
  /\ UNCHANGED <<pollVars, projVars, concVars>>
  /\ IF ~isPlatformAdmin(role)
     THEN /\ last' = AuthorizationError("patch", role)
          /\ UNCHANGED platform
     ELSE /\ platform' = updateConfig(platform, names, behavior)
          /\ last' = [NoRequest EXCEPT !.op = "patch", !.role = role, !.pre = platform,
                                       !.names = names, !.behavior = behavior,
                                       !.touched = TRUE]

\* router.patch('/:pieceName')
PatchPieceVisibility(role, pieceName, visible) ==
  /\ UNCHANGED <<pollVars, projVars, concVars>>
  /\ IF ~isPlatformAdmin(role)
     THEN /\ last' = [AuthorizationError("toggle", role) EXCEPT
                        !.pieceName = pieceName, !.visible = visible]
          /\ UNCHANGED platform
     ELSE LET updatedNames == routerUpdatedNames(platform, pieceName, visible)
          IN /\ platform' = updateNames(platform, updatedNames)
             /\ last' = [NoRequest EXCEPT !.op = "toggle", !.role = role,
                           !.pieceName = pieceName, !.visible = visible,
                           !.pre = platform, !.names = updatedNames,
                           !.touched = TRUE]

\* cmPlatformPieceService.togglePieceVisibility (no role check of its own)
TogglePieceVisibility(pieceName, visible) ==
  LET updatedNames == serviceUpdatedNames(platform, pieceName, visible)
  IN /\ platform' = updateNames(platform, updatedNames)
     /\ last' = [NoRequest EXCEPT !.op = "toggle", !.role = "ADMIN",
                   !.pieceName = pieceName, !.visible = visible,
                   !.pre = platform, !.names = updatedNames, !.touched = TRUE]
     /\ UNCHANGED <<pollVars, projVars, concVars>>

\* cmPieceMetadataServiceHooks.filterPieces
FilterPieces(includeHidden, platformId, pieces) ==
  /\ last' = [NoRequest EXCEPT !.op = "filter", !.includeHidden = includeHidden,
                !.platformId = platformId, !.pieces = pieces, !.pre = platform,
                !.names = filterPieces(platform, includeHidden, platformId, pieces),
                !.touched = ~(includeHidden \/ platformId = NoPlatform)]
  /\ UNCHANGED <<platform, pollVars, projVars, concVars>>

Next ==
  \/ \E role \in Roles : SyncPieces(role)
  \/ \E role \in Roles : GetFilteredPieces(role)
  \/ \E role \in Roles, names \in NameLists, behavior \in Behaviors :
       UpdateFilteredPieces(role, names, behavior)
  \/ \E role \in Roles, pieceName \in Pieces, visible \in BOOLEAN :
       PatchPieceVisibility(role, pieceName, visible)
  \/ \E pieceName \in Pieces, visible \in BOOLEAN :
       TogglePieceVisibility(pieceName, visible)
  \/ \E includeHidden \in BOOLEAN, platformId \in {PlatformId, NoPlatform},
        pieces \in CandidateLists :
       FilterPieces(includeHidden, platformId, pieces)

(***************************************************************************)
(* Claims about the visibility resolver and the toggle (checked under Spec)*)
(***************************************************************************)
AllPieces == <<"slack", "sheets", "gmail">>

\* a filterPieces call of a regular user: no includeHidden, a platformId
IsUserFilter(r) == r.op = "filter" /\ ~r.includeHidden /\ r.platformId # NoPlatform

\* a toggle that passed the admin check
IsToggle(r) == r.op = "toggle" /\ r.error = ""

\* name is in the resolver's output over all pieces under config p
visibleTo(p, name) == includes(filterPieces(p, FALSE, PlatformId, AllPieces), name)

\* C1: with a non-empty filteredPieceNames the resolver returns exactly the
\* candidates not in the list under BLOCKED and exactly those in the list under
\* ALLOWED, in candidate order.
C1_ResolverFiltersByBehavior ==
  (/\ IsUserFilter(last)
   /\ last.pre.namesSet
   /\ Len(last.pre.filteredPieceNames) > 0
   /\ last.pre.filteredPieceBehavior \in Behaviors)
  => /\ IsSubSeq(last.names, last.pieces)
     /\ \A c \in Pieces :
          includes(last.names, c) <=>
            /\ includes(last.pieces, c)
            /\ IF last.pre.filteredPieceBehavior = "BLOCKED"
               THEN ~includes(last.pre.filteredPieceNames, c)
               ELSE includes(last.pre.filteredPieceNames, c)

\* BLOCKED with [slack, sheets] over [slack, sheets, gmail] gives [gmail]
C1_Witness ==
  /\ IsUserFilter(last)
  /\ last.pre = mkPlatform(TRUE, <<"slack", "sheets">>, "BLOCKED")
  /\ last.pieces = <<"slack", "sheets", "gmail">>
  /\ last.names = <<"gmail">>

\* C2: ALLOWED with an empty filteredPieceNames: the resolver returns no pieces.
C2_AllowedEmptyShowsNothing ==
  (/\ IsUserFilter(last)
   /\ last.pre.filteredPieceBehavior = "ALLOWED"
   /\ last.pre.namesSet
   /\ Len(last.pre.filteredPieceNames) = 0)
  => last.names = <<>>

\* C3: after a toggle of piece p with visible = v, p is visible under the
\* stored config, as the resolver decides it, iff v.
C3_ToggleSetsVisibility ==
  IsToggle(last) => (visibleTo(platform, last.pieceName) <=> last.visible)

\* C4: a toggle of p leaves the resolver's verdict on every other piece q as
\* it was before the toggle.
C4_ToggleKeepsOtherPieces ==
  IsToggle(last) =>
    \A q \in Pieces \ {last.pieceName} :
      visibleTo(platform, q) <=> visibleTo(last.pre, q)

\* C5: the UI predicate isVisible agrees with the resolver for every stored
\* config (list present) and every piece name.
C5_IsVisibleAgreesWithResolver ==
  platform.namesSet =>
    \A name \in Pieces : isVisible(platform, name) <=> visibleTo(platform, name)

\* C6: BLOCKED with an empty or unset filteredPieceNames: the resolver returns
\* the candidates unchanged, in the same order.
C6_BlockedEmptyShowsAll ==
  (/\ IsUserFilter(last)
   /\ last.pre.filteredPieceBehavior = "BLOCKED"
   /\ namesOrEmpty(last.pre) = <<>>)
  => last.names = last.pieces

C6_Witness ==
  /\ IsUserFilter(last)
  /\ last.pre.filteredPieceBehavior = "BLOCKED"
  /\ ~last.pre.namesSet
  /\ Len(last.pieces) = 3
  /\ last.names = last.pieces

\* C7: the toggle is idempotent: a toggle (p, v) that directly follows a toggle
\* (p, v) leaves the stored config as it is and returns the same list.
C7_ToggleIdempotent ==
  [][(/\ IsToggle(last)
      /\ IsToggle(last')
      /\ last'.pieceName = last.pieceName
      /\ last'.visible = last.visible
      /\ last'.pre = platform)
     => (platform' = platform /\ last'.names = last.names)]_vars

\* a toggle (hide slack under BLOCKED) applied to the config it produced
C7_Witness ==
  /\ IsToggle(last)
  /\ last.pieceName = "slack"
  /\ ~last.visible
  /\ last.pre = mkPlatform(TRUE, <<"sheets", "slack">>, "BLOCKED")
  /\ platform = last.pre
  /\ last.names = <<"sheets", "slack">>

\* C8: a toggle that asks for the visibility p already has (as the resolver
\* decides it) is a no-op on the list (returned and stored) and the behavior.
C8_ToggleNoOpWhenAlreadyThere ==
  (IsToggle(last) /\ (visibleTo(last.pre, last.pieceName) <=> last.visible))
  => /\ last.names = namesOrEmpty(last.pre)
     /\ namesOrEmpty(platform) = namesOrEmpty(last.pre)
     /\ platform.filteredPieceBehavior = last.pre.filteredPieceBehavior

\* C9: the toggle changes the membership of p only, in the direction the
\* behavior fixes: BLOCKED adds on hide and removes on show, ALLOWED adds on
\* show and removes on hide; the other names keep presence and order; an add
\* leaves exactly one p.
C9_ToggleMembership ==
  IsToggle(last) =>
    LET cur == namesOrEmpty(last.pre)
        beh == behaviorOrBlocked(last.pre)
        p == last.pieceName
        adds == (beh = "BLOCKED" /\ ~last.visible) \/ (beh = "ALLOWED" /\ last.visible)
    IN /\ platform.namesSet /\ platform.filteredPieceNames = last.names
       /\ without(last.names, p) = without(cur, p)
       /\ (adds /\ ~includes(cur, p)) => Count(last.names, p) = 1
       /\ (adds /\ includes(cur, p)) => last.names = cur
       /\ ~adds => ~includes(last.names, p)

\* ALLOWED: showing gmail adds it once, after the names already listed
C9_Witness ==
  /\ IsToggle(last)
  /\ last.pieceName = "gmail"
  /\ last.visible
  /\ last.pre = mkPlatform(TRUE, <<"slack", "sheets">>, "ALLOWED")
  /\ platform.filteredPieceNames = <<"slack", "sheets", "gmail">>

(***************************************************************************)
(* Trigger Poll Coordinator (pollingHelper.onEnable / onDisable / poll with *)
(* DedupeStrategy.TIMEBASED).  The helper's code is not among the sources:  *)
(* this part follows the specification's section 4.2, 5 and 7.              *)
(***************************************************************************)
\* largest itemKey an external source hands out
MaxKey == 3
\* most items one fetch returns
MaxBatch == 2

Keys == 1..MaxKey
Triggers == {"t1", "t2"}

\* a fetch result: raw items in the order the source returns them; the
\* payload is opaque, the position stands for it
KeyLists == SeqsUpTo(Keys, MaxBatch)
toItems(keys) == [i \in 1..Len(keys) |-> [itemKey |-> keys[i], payload |-> i]]

keysOf(items) == [i \in 1..Len(items) |-> items[i].itemKey]

Max(a, b) == IF a >= b THEN a ELSE b

RECURSIVE maxKey(_, _)
maxKey(items, floor) ==
  IF items = <<>> THEN floor
  ELSE maxKey(Tail(items), Max(floor, Head(items).itemKey))

\* step 3: discard items with itemKey <= watermark
discardSeenMutInclusive(items, watermark) ==
  SelectSeq(items, LAMBDA it : it.itemKey >= watermark)

discardSeen(items, watermark) ==
  SelectSeq(items, LAMBDA it : it.itemKey > watermark)

\* step 4: ascending by itemKey, ties in input order
RECURSIVE insertByKey(_, _)
insertByKey(sorted, item) ==
  IF sorted = <<>> THEN <<item>>
  ELSE IF item.itemKey < Head(sorted).itemKey THEN <<item>> \o sorted
  ELSE <<Head(sorted)>> \o insertByKey(Tail(sorted), item)

sortByKeyMutUnsorted(items) == items

RECURSIVE sortByKey(_)
sortByKey(items) ==
  IF items = <<>> THEN <<>>
  ELSE insertByKey(sortByKey(SubSeq(items, 1, Len(items) - 1)), items[Len(items)])

\* step 6: the watermark a poll commits
committedWatermarkMutKeepsPrevious(previous, handedOff, fetchedItems) == previous

committedWatermarkMutNoMax(previous, handedOff, fetchedItems) ==
  IF handedOff = <<>> THEN 0 ELSE handedOff[Len(handedOff)].itemKey

committedWatermark(previous, handedOff, fetchedItems) ==
  maxKey(handedOff, previous)

\* what is kept of the poll before: whether emit failed in it, what it had
\* fetched and the items it had not handed off when it stopped
NoPrev == [emitFailed |-> FALSE, fetchedItems |-> <<>>, rest |-> <<>>]

\* the summary of a finished poll r, kept by the poll that follows it
summary(r) ==
  IF r.failed /\ r.batch # <<>>
  THEN [emitFailed |-> TRUE, fetchedItems |-> r.fetchedItems, rest |-> r.batch]
  ELSE NoPrev

NoRun ==
  [phase |-> "idle", wm0 |-> 0, fetchedItems |-> <<>>, batch |-> <<>>,
   out |-> <<>>, failed |-> FALSE, prev |-> NoPrev, active |-> 0,
   skipped |-> FALSE, timedOut |-> FALSE]

\* per key: times it was handed off (2 stands for "twice or more") and the
\* number of polls that handed it off (likewise)
NoneEmitted == [k \in Keys |-> [times |-> 0, polls |-> 0]]

InitPoll ==
  /\ trig = [t \in Triggers |->
               [state |-> "DISABLED", enabled |-> FALSE, created |-> FALSE,
                watermark |-> 0, held |-> 0]]
  /\ run = [t \in Triggers |-> NoRun]
  /\ emitted = [t \in Triggers |-> NoneEmitted]
  /\ fetched = [t \in Triggers |-> [lastKey |-> 0, monotone |-> TRUE]]

\* the state a trigger returns to when its poll ends and the lock is released
afterPollMutKeepsLock(t) == "POLLING"

afterPoll(t) == IF trig[t].enabled THEN "ENABLED" ELSE "DISABLING"

\* onEnable: DISABLED -> ENABLING
OnEnable(t) ==
  /\ trig[t].state = "DISABLED"
  /\ trig' = [trig EXCEPT ![t].state = "ENABLING"]
  /\ UNCHANGED <<run, emitted, fetched, pieceVars, projVars, concVars>>

\* the watermark onEnable leaves: the first enable records the initial
\* watermark, a re-enable keeps the retained one
enableWatermarkMutReset(created, retained, initialWatermark) == initialWatermark

enableWatermark(created, retained, initialWatermark) ==
  IF created THEN retained ELSE initialWatermark

\* onEnable succeeds: ENABLING -> ENABLED
OnEnableDone(t, initialWatermark) ==
  /\ trig[t].state = "ENABLING"
  /\ trig' = [trig EXCEPT ![t].state = "ENABLED", ![t].enabled = TRUE,
                          ![t].created = TRUE,
                          ![t].watermark = enableWatermark(trig[t].created, @,
                                                           initialWatermark)]
  /\ UNCHANGED <<run, emitted, fetched, pieceVars, projVars, concVars>>

\* onEnable reports an error: back to DISABLED
OnEnableError(t) ==
  /\ trig[t].state = "ENABLING"
  /\ trig' = [trig EXCEPT ![t].state = "DISABLED"]
  /\ UNCHANGED <<run, emitted, fetched, pieceVars, projVars, concVars>>

\* onDisable: ENABLED -> DISABLING; a poll in flight is left to complete;
\* held remembers the watermark the trigger had when it was disabled
OnDisable(t) ==
  /\ trig[t].enabled
  /\ trig[t].state \in {"ENABLED", "POLLING"}
  /\ trig' = [trig EXCEPT ![t].enabled = FALSE,
                          ![t].held = trig[t].watermark,
                          ![t].state = IF @ = "ENABLED" THEN "DISABLING" ELSE @]
  /\ UNCHANGED <<run, emitted, fetched, pieceVars, projVars, concVars>>

\* DISABLING -> DISABLED: scheduling cleared, watermark retained
OnDisableDoneMutErases(t) ==
  /\ trig[t].state = "DISABLING"
  /\ trig' = [trig EXCEPT ![t].state = "DISABLED", ![t].watermark = 0]
  /\ UNCHANGED <<run, emitted, fetched, pieceVars, projVars, concVars>>

OnDisableDone(t) ==
  /\ trig[t].state = "DISABLING"
  /\ trig' = [trig EXCEPT ![t].state = "DISABLED"]
  /\ UNCHANGED <<run, emitted, fetched, pieceVars, projVars, concVars>>

\* the per-trigger lock: a tick may start a poll of t only when t is
\* scheduled and no poll of t is in progress
lockFreeMutNoLock(t) == trig[t].enabled /\ trig[t].state \in {"ENABLED", "POLLING"}

lockFree(t) == trig[t].enabled /\ trig[t].state = "ENABLED"

\* a scheduled tick of an enabled trigger with no poll in flight:
\* ENABLED -> POLLING, the per-trigger lock is taken, the watermark is read;
\* active counts the poll executions of t in progress
Tick(t) ==
  /\ lockFree(t)
  /\ trig' = [trig EXCEPT ![t].state = "POLLING"]
  /\ run' = [run EXCEPT ![t] = [NoRun EXCEPT !.phase = "fetch",
                                             !.wm0 = trig[t].watermark,
                                             !.prev = summary(run[t]),
                                             !.active = run[t].active + 1]]
  /\ UNCHANGED <<emitted, fetched, pieceVars, projVars, concVars>>

\* a tick that fires while the previous poll has not completed is skipped
TickSkipped(t) ==
  /\ trig[t].state = "POLLING"
  /\ run' = [run EXCEPT ![t].skipped = TRUE]
  /\ UNCHANGED <<trig, emitted, fetched, pieceVars, projVars, concVars>>

nonDecreasingFrom(keys, floor) ==
  /\ \A i \in 1..Len(keys) : floor <= keys[i]
  /\ \A i, j \in 1..Len(keys) : i < j => keys[i] <= keys[j]

\* steps 1-4: the fetch returns, old items are discarded, the rest sorted;
\* the summary of the poll before is kept only when this fetch repeats its
\* fetch, the last fetched key only while the fetched keys are non-decreasing
FetchOk(t, keys) ==
  /\ trig[t].state = "POLLING"
  /\ run[t].phase = "fetch"
  /\ LET items == toItems(keys)
     IN run' = [run EXCEPT ![t].phase = "emit",
                           ![t].fetchedItems = items,
                           ![t].batch = sortByKey(discardSeen(items, run[t].wm0)),
                           ![t].prev = IF @.fetchedItems = items THEN @ ELSE NoPrev]
  /\ LET monotone == fetched[t].monotone /\ nonDecreasingFrom(keys, fetched[t].lastKey)
     IN fetched' = [fetched EXCEPT
                      ![t].monotone = monotone,
                      ![t].lastKey = IF ~monotone THEN 0
                                     ELSE IF keys = <<>> THEN @ ELSE keys[Len(keys)]]
  /\ UNCHANGED <<trig, emitted, pieceVars, projVars, concVars>>

\* the fetch fails: the watermark is not advanced and the lock is released
FetchError(t) ==
  /\ trig[t].state = "POLLING"
  /\ run[t].phase = "fetch"
  /\ run' = [run EXCEPT ![t].phase = "done", ![t].failed = TRUE,
                        ![t].active = @ - 1, ![t].prev = NoPrev]
  /\ trig' = [trig EXCEPT ![t].state = afterPoll(t)]
  /\ UNCHANGED <<emitted, fetched, pieceVars, projVars, concVars>>

\* the tick exceeds its timeout while the fetch blocks: it is aborted like a
\* fetch failure, the watermark is not advanced and the lock is released
Timeout(t) ==
  /\ trig[t].state = "POLLING"
  /\ run[t].phase = "fetch"
  /\ run' = [run EXCEPT ![t].phase = "done", ![t].failed = TRUE,
                        ![t].timedOut = TRUE, ![t].active = @ - 1,
                        ![t].prev = NoPrev]
  /\ trig' = [trig EXCEPT ![t].state = afterPoll(t)]
  /\ UNCHANGED <<emitted, fetched, pieceVars, projVars, concVars>>

bump(n) == IF n >= 2 THEN 2 ELSE n + 1

\* step 5: the next item of the batch is handed to the flow runner
EmitOk(t) ==
  /\ trig[t].state = "POLLING"
  /\ run[t].phase = "emit"
  /\ run[t].batch # <<>>
  /\ ~run[t].failed
  /\ LET item == Head(run[t].batch)
         k == item.itemKey
         firstInPoll == ~includes(keysOf(run[t].out), k)
     IN /\ run' = [run EXCEPT ![t].batch = Tail(@), ![t].out = Append(@, item)]
        /\ emitted' = [emitted EXCEPT
                         ![t][k].times = bump(@),
                         ![t][k].polls = IF firstInPoll THEN bump(@) ELSE @]
  /\ UNCHANGED <<trig, fetched, pieceVars, projVars, concVars>>

\* emit fails for the next item: batch processing stops
EmitError(t) ==
  /\ trig[t].state = "POLLING"
  /\ run[t].phase = "emit"
  /\ run[t].batch # <<>>
  /\ ~run[t].failed
  /\ run' = [run EXCEPT ![t].failed = TRUE]
  /\ UNCHANGED <<trig, emitted, fetched, pieceVars, projVars, concVars>>

\* step 6: the batch is through (or stopped): commit the watermark and
\* release the lock
Commit(t) ==
  /\ trig[t].state = "POLLING"
  /\ run[t].phase = "emit"
  /\ run[t].batch = <<>> \/ run[t].failed
  /\ trig' = [trig EXCEPT
                ![t].watermark = committedWatermark(@, run[t].out, run[t].fetchedItems),
                ![t].state = afterPoll(t)]
  /\ run' = [run EXCEPT ![t].phase = "done", ![t].active = @ - 1]
  /\ UNCHANGED <<emitted, fetched, pieceVars, projVars, concVars>>

\* the steps of the triggers in T, their fetches returning lists of keyLists
PollOf(T, keyLists) ==
  \/ \E t \in T : OnEnable(t)
  \/ \E t \in T, w \in 0..1 : OnEnableDone(t, w)
  \/ \E t \in T : OnEnableError(t)
  \/ \E t \in T : OnDisable(t)
  \/ \E t \in T : OnDisableDone(t)
  \/ \E t \in T : Tick(t)
  \/ \E t \in T : TickSkipped(t)
  \/ \E t \in T, keys \in keyLists : FetchOk(t, keys)
  \/ \E t \in T : FetchError(t)
  \/ \E t \in T : Timeout(t)
  \/ \E t \in T : EmitOk(t)
  \/ \E t \in T : EmitError(t)
  \/ \E t \in T : Commit(t)

\* one trigger scheduled, every fetch result within the bounds
NextPoll == PollOf({"t1"}, KeyLists)

\* two triggers on the shared worker pool, fetches returning at most one item
ParKeyLists == {<<>>, <<1>>}

NextPollPar == PollOf(Triggers, ParKeyLists)

(***************************************************************************)
(* The CE project API: cmPlatformProjectController over                    *)
(* cmPlatformProjectService, and the flags hook cmFlagsHooks.modify.       *)
(***************************************************************************)
\* number of project ids apId() hands out
MaxProjects == 2

ProjectIds == 1..MaxProjects
OtherPlatformId == "P2"
\* the users behind request.principal: platformRole and platformId
Principals ==
  {[platformRole |-> "ADMIN", platformId |-> PlatformId],
   [platformRole |-> "ADMIN", platformId |-> OtherPlatformId],
   [platformRole |-> "ADMIN", platformId |-> NoPlatform],
   [platformRole |-> "MEMBER", platformId |-> PlatformId]}
DisplayNames == {"a", "b"}
\* a body field that is not sent
Undefined == "undefined"

\* a row of the project table; deleted = 0 is a null deleted column
NoProject ==
  [exists |-> FALSE, platformId |-> NoPlatform, displayName |-> "", deleted |-> 0]

\* the flags a request gets; MANAGE_PIECES_ENABLED may be missing before the
\* hook runs
FlagValues == {"true", "false", "absent"}
NoFlags == [MANAGE_PIECES_ENABLED |-> "absent", SHOW_COMMUNITY |-> "absent"]

NoReply ==
  [op |-> "none", role |-> "ADMIN", platformId |-> NoPlatform, id |-> 0,
   displayName |-> "", error |-> "", project |-> NoProject, ids |-> {},
   flags |-> NoFlags, managePiecesEnabled |-> ""]

InitProj ==
  /\ projects = [id \in ProjectIds |-> NoProject]
  /\ clock = 1
  /\ reply = NoReply

\* projectRepo().findOneBy({ id, deleted: IsNull() }) finds a row
findLiveMutIgnoresDeleted(ps, id) == ps[id].exists

findLiveMutAnyRow(ps, id) == TRUE

findLive(ps, id) == ps[id].exists /\ ps[id].deleted = 0

\* projectRepo().findBy({ platformId, deleted: IsNull() }), as a set of ids
findByPlatform(ps, platformId) ==
  {id \in ProjectIds : findLive(ps, id) /\ ps[id].platformId = platformId}

\* apId(): an id no row has
apId(ps) == CHOOSE id \in ProjectIds : ~ps[id].exists /\ \A j \in ProjectIds : j < id => ps[j].exists

\* the column set of projectRepo().update in update: only the fields sent
updatedFields(project, displayName) ==
  IF displayName # Undefined THEN [project EXCEPT !.displayName = displayName]
  ELSE project

\* the column set of projectRepo().update in delete
softDeleted(project, now) == [project EXCEPT !.deleted = now]

\* isPlatformAdmin of the project controller
isProjectPlatformAdminMutAnyUser(user) == TRUE

isProjectPlatformAdmin(user) == user.platformRole = "ADMIN"

request(op, user) ==
  [NoReply EXCEPT !.op = op, !.role = user.platformRole, !.platformId = user.platformId]

failed(op, user, code) == [request(op, user) EXCEPT !.error = code]

\* listProjects
ListProjects(user) ==
  /\ reply' = IF ~isProjectPlatformAdmin(user) THEN failed("list", user, "AUTHORIZATION")
              ELSE IF user.platformId = NoPlatform
              THEN failed("list", user, "ENTITY_NOT_FOUND")
              ELSE [request("list", user) EXCEPT
                      !.ids = findByPlatform(projects, user.platformId)]
  /\ UNCHANGED <<projects, clock, pieceVars, pollVars, concVars>>

\* getProject
GetProject(user, id) ==
  /\ reply' = IF ~isProjectPlatformAdmin(user)
              THEN [failed("get", user, "AUTHORIZATION") EXCEPT !.id = id]
              ELSE IF ~findLive(projects, id)
              THEN [failed("get", user, "ENTITY_NOT_FOUND") EXCEPT !.id = id]
              ELSE [request("get", user) EXCEPT !.id = id, !.project = projects[id]]
  /\ UNCHANGED <<projects, clock, pieceVars, pollVars, concVars>>

\* createProject
CreateProject(user, displayName) ==
  /\ \E id \in ProjectIds : ~projects[id].exists
  /\ UNCHANGED <<clock, pieceVars, pollVars, concVars>>
  /\ IF ~isProjectPlatformAdmin(user)
     THEN /\ reply' = [failed("create", user, "AUTHORIZATION") EXCEPT
                         !.displayName = displayName]
          /\ UNCHANGED projects
     ELSE IF user.platformId = NoPlatform
     THEN /\ reply' = [failed("create", user, "ENTITY_NOT_FOUND") EXCEPT
                         !.displayName = displayName]
          /\ UNCHANGED projects
     ELSE LET id == apId(projects)
              newProject == [exists |-> TRUE, platformId |-> user.platformId,
                             displayName |-> displayName, deleted |-> 0]
          IN /\ projects' = [projects EXCEPT ![id] = newProject]
             /\ reply' = [request("create", user) EXCEPT
                            !.id = id, !.displayName = displayName,
                            !.project = newProject]

\* updateProject
UpdateProject(user, id, displayName) ==
  /\ UNCHANGED <<clock, pieceVars, pollVars, concVars>>
  /\ IF ~isProjectPlatformAdmin(user)
     THEN /\ reply' = [failed("update", user, "AUTHORIZATION") EXCEPT
                         !.id = id, !.displayName = displayName]
          /\ UNCHANGED projects
     ELSE IF ~findLive(projects, id)
     THEN /\ reply' = [failed("update", user, "ENTITY_NOT_FOUND") EXCEPT
                         !.id = id, !.displayName = displayName]
          /\ UNCHANGED projects
     ELSE LET updatedProject == updatedFields(projects[id], displayName)
          IN /\ projects' = [projects EXCEPT ![id] = updatedProject]
             /\ reply' = [request("update", user) EXCEPT
                            !.id = id, !.displayName = displayName,
                            !.project = updatedProject]

\* deleteProject: a soft delete that stamps the deleted column with the time
\* (the clock has a tick left for every project that is still live)
DeleteProject(user, id) ==
  /\ findLive(projects, id) => clock <= MaxProjects
  /\ UNCHANGED <<pieceVars, pollVars, concVars>>
  /\ IF ~isProjectPlatformAdmin(user)
     THEN /\ reply' = [failed("delete", user, "AUTHORIZATION") EXCEPT !.id = id]
          /\ UNCHANGED <<projects, clock>>
     ELSE IF ~findLive(projects, id)
     THEN /\ reply' = [failed("delete", user, "ENTITY_NOT_FOUND") EXCEPT !.id = id]
          /\ UNCHANGED <<projects, clock>>
     ELSE /\ projects' = [projects EXCEPT ![id] = softDeleted(@, clock)]
          /\ clock' = clock + 1
          /\ reply' = [request("delete", user) EXCEPT
                         !.id = id, !.project = softDeleted(projects[id], clock)]

\* cmFlagsHooks.modify: platformId is the request's platform, nil when the
\* request carries none
modify(flags, platformId) ==
  IF platformId = NoPlatform THEN flags
  ELSE [flags EXCEPT !.MANAGE_PIECES_ENABLED = "true"]

\* a flags request; managePiecesEnabled is the platform's own setting, which
\* the hook does not read
ModifyFlags(flags, platformId, managePiecesEnabled) ==
  /\ reply' = [NoReply EXCEPT !.op = "flags", !.platformId = platformId,
                              !.managePiecesEnabled = managePiecesEnabled,
                              !.flags = modify(flags, platformId)]
  /\ UNCHANGED <<projects, clock, pieceVars, pollVars, concVars>>

NextProj ==
  \/ \E user \in Principals : ListProjects(user)
  \/ \E user \in Principals, id \in ProjectIds : GetProject(user, id)
  \/ \E user \in Principals, displayName \in DisplayNames :
       CreateProject(user, displayName)
  \/ \E user \in Principals, id \in ProjectIds,
        displayName \in DisplayNames \cup {Undefined} :
       UpdateProject(user, id, displayName)
  \/ \E user \in Principals, id \in ProjectIds : DeleteProject(user, id)
  \/ \E flags \in [MANAGE_PIECES_ENABLED : FlagValues, SHOW_COMMUNITY : {"true"}],
        platformId \in {PlatformId, NoPlatform},
        managePiecesEnabled \in {"true", "false"} :
       ModifyFlags(flags, platformId, managePiecesEnabled)

(***************************************************************************)
(* Requests in flight: the single-piece toggle reads the platform, computes *)
(* the list and writes it in a second call; other requests run in between.  *)
(***************************************************************************)
\* the toggles in flight at once
Slots == {1, 2}
\* which copy of the toggle the request in a slot runs
kindOf(i) == IF i = 1 THEN "router" ELSE "service"
\* the pieces toggled and the bodies of the bulk PATCHes in between
ConcPieces == {"slack", "gmail"}
ConcBodies ==
  {[names |-> <<>>, behavior |-> "ALLOWED"],
   [names |-> <<"slack">>, behavior |-> "BLOCKED"]}

IdleSlot ==
  [pc |-> "idle", kind |-> "router", pieceName |-> "", visible |-> FALSE,
   updatedNames |-> <<>>, readBehavior |-> ""]

\* namesAgainst: the behavior the stored list was computed against, when a
\* toggle wrote it last ("none" after a bulk PATCH or at the start);
\* patched: a bulk PATCH was written after the first toggle had read
InitConc ==
  conc = [slot |-> [i \in Slots |-> IdleSlot], namesAgainst |-> "none",
          patched |-> FALSE]

toggleUpdatedNames(kind, p, pieceName, visible) ==
  IF kind = "router" THEN routerUpdatedNames(p, pieceName, visible)
  ELSE serviceUpdatedNames(p, pieceName, visible)

\* the toggle up to its write: platformService.getOneOrThrow, updatedNames
ToggleRead(i, pieceName, visible) ==
  /\ conc.slot[i].pc = "idle"
  /\ conc' = [conc EXCEPT !.slot[i] =
                [pc |-> "read", kind |-> kindOf(i), pieceName |-> pieceName,
                 visible |-> visible,
                 updatedNames |-> toggleUpdatedNames(kindOf(i), platform, pieceName, visible),
                 readBehavior |-> behaviorOrBlocked(platform)]]
  /\ UNCHANGED <<platform, last, pollVars, projVars>>

\* the toggle's platformService.update({ id, filteredPieceNames })
ToggleWrite(i) ==
  /\ conc.slot[i].pc = "read"
  /\ platform' = updateNames(platform, conc.slot[i].updatedNames)
  /\ conc' = [conc EXCEPT !.slot[i].pc = "done",
                          !.namesAgainst = conc.slot[i].readBehavior]
  /\ UNCHANGED <<last, pollVars, projVars>>

\* a bulk PATCH of another admin request: one platformService.update
BulkPatch(names, behavior) ==
  /\ platform' = updateConfig(platform, names, behavior)
  /\ conc' = [conc EXCEPT !.namesAgainst = "none",
                          !.patched = @ \/ \E i \in Slots : conc.slot[i].pc # "idle"]
  /\ UNCHANGED <<last, pollVars, projVars>>

NextConc ==
  \/ \E i \in Slots, pieceName \in ConcPieces, visible \in BOOLEAN :
       ToggleRead(i, pieceName, visible)
  \/ \E i \in Slots : ToggleWrite(i)
  \/ \E body \in ConcBodies : BulkPatch(body.names, body.behavior)

(***************************************************************************)
(* Specifications                                                          *)
(***************************************************************************)
Init == InitPieces /\ InitPoll /\ InitProj /\ InitConc

\* the visibility API with the poll coordinator idle
Spec == Init /\ [][Next]_vars

\* the poll coordinator with the visibility API idle
InitPollOnly ==
  /\ platform = mkPlatform(TRUE, <<>>, "BLOCKED")
  /\ last = NoRequest
  /\ InitPoll
  /\ InitProj
  /\ InitConc

SpecPoll == InitPollOnly /\ [][NextPoll]_vars

SpecPollPar == InitPollOnly /\ [][NextPollPar]_vars

\* one trigger under a fair scheduler: the schedule slot of an enabled
\* trigger keeps firing, and a poll that holds the lock keeps moving (the
\* fetch is bounded by its timeout, hand-off and commit are fast)
LiveKeyLists == {<<>>, <<1>>, <<1, 2>>}

NextPollLive == PollOf({"t1"}, LiveKeyLists)

PollStep(t, keyLists) ==
  \/ \E keys \in keyLists : FetchOk(t, keys)
  \/ FetchError(t)
  \/ Timeout(t)
  \/ EmitOk(t)
  \/ EmitError(t)
  \/ Commit(t)

FairPoll == WF_vars(Tick("t1")) /\ WF_vars(PollStep("t1", LiveKeyLists))

SpecPollLive == InitPollOnly /\ [][NextPollLive]_vars /\ FairPoll

\* the project API and the flags hook, the rest idle
SpecProj == InitPollOnly /\ [][NextProj]_vars

\* toggles and bulk PATCHes interleaved at their platformService calls
SpecConc == InitPollOnly /\ [][NextConc]_vars

(***************************************************************************)
(* Claims about the poll coordinator (checked under SpecPoll)              *)
(***************************************************************************)
\* every item a poll handed off has a key above the watermark read at its tick
emittedAboveWatermark(t) ==
  \A i \in 1..Len(run[t].out) : run[t].out[i].itemKey > run[t].wm0

C11_WatermarkMonotone ==
  [][\A t \in Triggers : trig'[t].watermark >= trig[t].watermark]_vars

\* a trigger that was disabled and enabled again has committed a poll that
\* advanced its watermark from 1 to 3
C11_Witness ==
  /\ trig["t1"].held >= 1
  /\ trig["t1"].enabled
  /\ run["t1"].phase = "done"
  /\ run["t1"].wm0 = 1
  /\ trig["t1"].watermark = 3

\* the poll of t stopped because emit failed for the next item of its batch
emitFailed(t) == run[t].failed /\ run[t].batch # <<>>

\* the poll of t has fetched the same items as the poll before it, in which
\* emit had failed
repeatsFailedPoll(t) ==
  /\ run[t].phase \in {"emit", "done"}
  /\ run[t].prev.emitFailed
  /\ run[t].fetchedItems = run[t].prev.fetchedItems

lastKeyOr(items, floor) ==
  IF items = <<>> THEN floor ELSE items[Len(items)].itemKey

\* C12: when emit fails for the k-th item the batch stops, the watermark is
\* the key of the last item handed off (unchanged if none), and the next poll,
\* fetching the same items, has as its batch the items from position k on (its
\* handed-off and pending items together are exactly those) and none before k.
C12_ResumesAtFailedItem ==
  \A t \in Triggers :
    /\ (run[t].phase = "done" /\ emitFailed(t))
         => trig[t].watermark = lastKeyOr(run[t].out, run[t].wm0)
    /\ repeatsFailedPoll(t) => run[t].out \o run[t].batch = run[t].prev.rest

\* the same, for batches in which no two items share a key
C12_ResumesAtFailedItemDistinctKeys ==
  \A t \in Triggers :
    /\ (run[t].phase = "done" /\ emitFailed(t))
         => trig[t].watermark = lastKeyOr(run[t].out, run[t].wm0)
    /\ (repeatsFailedPoll(t) /\ Distinct(keysOf(run[t].fetchedItems)))
         => run[t].out \o run[t].batch = run[t].prev.rest

\* C13: at no time are two poll executions of one trigger in progress: a poll
\* is in progress exactly while the trigger is POLLING, and a tick in that
\* state is skipped; polls of distinct triggers run in parallel.
C13_OnePollPerTrigger ==
  \A t \in Triggers :
    /\ run[t].active <= 1
    /\ run[t].active = 1 <=> trig[t].state = "POLLING"
    /\ run[t].skipped => run[t].active = 1 \/ run[t].phase = "done"

\* both triggers are polling at once, and a tick of t1 was skipped meanwhile
C13_Witness ==
  /\ trig["t1"].state = "POLLING" /\ run["t1"].active = 1 /\ run["t1"].skipped
  /\ trig["t2"].state = "POLLING" /\ run["t2"].active = 1
  /\ run["t2"].phase = "emit"

disabledMidPoll(t) == trig[t].state = "POLLING" /\ ~trig[t].enabled

\* the poll of a trigger disabled mid-poll ends by committing its watermark
\* advance, and a disabled trigger never starts a poll
C14_Step ==
  \A t \in Triggers :
    /\ (disabledMidPoll(t) /\ run[t].phase = "emit" /\ run'[t].phase = "done")
         => /\ trig'[t].watermark = maxKey(run[t].out, run[t].wm0)
            /\ trig'[t].state = "DISABLING"
    /\ (~trig[t].enabled /\ trig'[t].state = "POLLING")
         => trig[t].state = "POLLING"

\* C14: when a trigger is disabled while its poll is in flight, the poll
\* completes and its watermark advance is committed, and no tick starts a
\* poll of the trigger while it stays disabled.
C14_DisableMidPollCompletes ==
  /\ [][C14_Step]_vars
  /\ \A t \in {"t1"} : disabledMidPoll(t) ~> trig[t].state # "POLLING"

\* disabled at watermark 0 during a poll that then committed watermark 2
C14_Witness ==
  /\ ~trig["t1"].enabled /\ trig["t1"].state \in {"DISABLING", "DISABLED"}
  /\ run["t1"].phase = "done" /\ ~run["t1"].failed
  /\ trig["t1"].held = 0 /\ run["t1"].wm0 = 0 /\ trig["t1"].watermark = 2

\* a step of onDisable: the enabled flag is cleared, or DISABLING is left
isDisableStep(t) ==
  \/ trig[t].enabled /\ ~trig'[t].enabled
  \/ trig[t].state = "DISABLING" /\ trig'[t].state = "DISABLED"

\* a step that hands one more item of t to the flow runner
isEmitStep(t) == Len(run'[t].out) = Len(run[t].out) + 1

\* C15: onDisable leaves the watermark as it is, and after a disable and a
\* re-enable no item is emitted whose key is at or below the watermark the
\* trigger held when it was disabled.
C15_DisableRetainsWatermark ==
  [][\A t \in Triggers :
       /\ isDisableStep(t) => trig'[t].watermark = trig[t].watermark
       /\ isEmitStep(t) => run'[t].out[Len(run'[t].out)].itemKey > trig[t].held]_vars

\* disabled at watermark 1 and re-enabled; the next poll fetched keys 1 and 2
\* and has emitted only 2
C15_Witness ==
  /\ trig["t1"].enabled /\ trig["t1"].state = "POLLING"
  /\ trig["t1"].held = 1 /\ run["t1"].wm0 = 1
  /\ keysOf(run["t1"].fetchedItems) = <<1, 2>>
  /\ keysOf(run["t1"].out) = <<2>> /\ run["t1"].batch = <<>>

\* a poll that ended without items: its fetch failed, or returned nothing
fetchedNothing(t) == run[t].phase = "done" /\ run[t].fetchedItems = <<>>

\* C16: a poll whose fetch fails or returns no items emits nothing and
\* leaves the watermark unchanged, and the tick after it polls from the
\* same watermark.
C16_FailedOrEmptyFetchIsNoOp ==
  /\ [](\A t \in Triggers :
          fetchedNothing(t) => run[t].out = <<>> /\ trig[t].watermark = run[t].wm0)
  /\ [][\A t \in Triggers :
          (fetchedNothing(t) /\ run'[t].phase = "fetch")
            => run'[t].wm0 = run[t].wm0]_vars

\* a later poll from watermark 2 whose fetch failed: nothing was emitted and
\* the watermark is still 2
C16_Witness ==
  /\ run["t1"].phase = "done" /\ run["t1"].failed /\ ~run["t1"].timedOut
  /\ run["t1"].fetchedItems = <<>> /\ run["t1"].out = <<>>
  /\ run["t1"].wm0 = 2 /\ trig["t1"].watermark = 2

\* items is ascending by key, items of equal key in their input order
ascendingStable(items) ==
  \A i, j \in 1..Len(items) :
    i < j => \/ items[i].itemKey < items[j].itemKey
             \/ /\ items[i].itemKey = items[j].itemKey
                /\ items[i].payload < items[j].payload

\* the items of fetchedItems above the watermark wm, as a set
newItems(fetchedItems, wm) ==
  {fetchedItems[i] : i \in {j \in 1..Len(fetchedItems) : fetchedItems[j].itemKey > wm}}

\* C17: within one batch the items above the watermark are emitted in
\* ascending key order, ties in input order, and once all are handed off the
\* watermark is the maximum of the emitted keys and the previous watermark.
C17_BatchAscendingThenMax ==
  \A t \in Triggers :
    /\ ascendingStable(run[t].out \o run[t].batch)
    /\ \A i \in 1..Len(run[t].out) : run[t].out[i].itemKey > run[t].wm0
    /\ (run[t].phase = "done" /\ ~run[t].failed)
         => /\ {run[t].out[i] : i \in 1..Len(run[t].out)}
                 = newItems(run[t].fetchedItems, run[t].wm0)
            /\ Len(run[t].out) = Cardinality(newItems(run[t].fetchedItems, run[t].wm0))
            /\ LET ks == {run[t].wm0} \cup
                          {run[t].out[i].itemKey : i \in 1..Len(run[t].out)}
               IN trig[t].watermark \in ks /\ \A k \in ks : k <= trig[t].watermark

\* watermark 1, fetch [3, 2]: emits [2, 3], the watermark becomes 3
C17_Witness ==
  /\ run["t1"].phase = "done" /\ ~run["t1"].failed /\ run["t1"].wm0 = 1
  /\ keysOf(run["t1"].fetchedItems) = <<3, 2>>
  /\ keysOf(run["t1"].out) = <<2, 3>>
  /\ trig["t1"].watermark = 3

\* watermark 1, fetch [2, 2]: the tied items are emitted in input order
C17_TieWitness ==
  /\ run["t1"].phase = "done" /\ ~run["t1"].failed /\ run["t1"].wm0 = 1
  /\ run["t1"].fetchedItems = toItems(<<2, 2>>)
  /\ run["t1"].out = toItems(<<2, 2>>)

\* the last poll of t was aborted by its timeout
aborted(t) == run[t].timedOut

\* C18: a poll tick that exceeds its timeout is aborted without changing the
\* watermark and releases the per-trigger lock, so that for a trigger that
\* stays enabled a later tick runs a poll.
C18_TimeoutReleasesLock ==
  /\ [](\A t \in Triggers :
          aborted(t) => /\ run[t].phase = "done" /\ run[t].out = <<>>
                        /\ trig[t].watermark = run[t].wm0
                        /\ trig[t].state # "POLLING" /\ run[t].active = 0)
  /\ \A t \in {"t1"} :
       (aborted(t) /\ trig[t].enabled)
          ~> (trig[t].state = "POLLING" \/ ~trig[t].enabled)

\* an enabled trigger whose poll from watermark 1 timed out: the watermark is
\* still 1 and the trigger is back in ENABLED
C18_Witness ==
  /\ aborted("t1") /\ trig["t1"].enabled /\ trig["t1"].state = "ENABLED"
  /\ run["t1"].wm0 = 1 /\ trig["t1"].watermark = 1
  /\ emitted["t1"][1].times = 1

ConfigOps == {"get", "patch", "toggle", "sync"}

C19_SyncWitness ==
  /\ last.op = "sync" /\ last.role = "MEMBER" /\ last.error = "AUTHORIZATION"
  /\ platform.filteredPieceNames # <<>>

\* C20: the PATCH of the whole config replaces it: a GET that directly
\* follows an admin PATCH with names N and behavior B returns N and B,
\* whatever the config was before the PATCH.
C20_PatchIsFullReplace ==
  (last.op = "get" /\ last.error = "" /\ last.prior.op = "patch")
     => /\ last.names = last.prior.names
        /\ last.behavior = last.prior.behavior

\* the config was BLOCKED [slack]; PATCH (ALLOWED, [gmail, sheets]), then GET
C20_Witness ==
  /\ last.op = "get" /\ last.prior.op = "patch"
  /\ last.prior.pre = mkPlatform(TRUE, <<"slack">>, "BLOCKED")
  /\ last.prior.names = <<"gmail", "sheets">> /\ last.prior.behavior = "ALLOWED"
  /\ last.names = <<"gmail", "sheets">> /\ last.behavior = "ALLOWED"

\* C21: a regular user's filterPieces (no includeHidden, a platformId) that
\* follows a toggle hiding piece p does not return p, and a call with
\* includeHidden or without a platformId returns the candidates unfiltered.
C21_HiddenPiecesOnlyForAdmins ==
  /\ []((last.op = "filter" /\ ~IsUserFilter(last)) => last.names = last.pieces)
  /\ [][(IsToggle(last) /\ ~last.visible /\ IsUserFilter(last'))
          => ~includes(last'.names, last.pieceName)]_vars

(***************************************************************************)
(* Claims about the project API and the flags hook (checked under SpecProj)*)
(***************************************************************************)
isGone(id) == projects[id].exists /\ projects[id].deleted # 0

\* C22: once a DELETE of a project has succeeded the project stays gone: a
\* get by its id reports ENTITY_NOT_FOUND, no project list contains it, and
\* no later create, update or delete brings it back.
C22_DeletedStaysGone ==
  /\ []((reply.op = "get" /\ reply.role = "ADMIN" /\ isGone(reply.id))
          => reply.error = "ENTITY_NOT_FOUND" /\ reply.project = NoProject)
  /\ [](reply.op = "list" => \A id \in reply.ids : ~isGone(id))
  /\ [][\A id \in ProjectIds : isGone(id) => projects'[id] = projects[id]]_vars

\* project 1 was deleted, project 2 created after it; a get of 1 is not found
C22_Witness ==
  /\ reply.op = "get" /\ reply.role = "ADMIN" /\ reply.id = 1
  /\ reply.error = "ENTITY_NOT_FOUND"
  /\ isGone(1) /\ projects[1].deleted = 1
  /\ findLive(projects, 2)

ProjectOps == {"list", "get", "create", "update", "delete"}

\* C23: list, get, create, update and delete of the CE project API, called
\* by a principal that is not a platform ADMIN, fail with AUTHORIZATION,
\* return no project and change no stored project.
C23_ProjectApiAdminOnly ==
  /\ []((reply.op \in ProjectOps /\ reply.role # "ADMIN")
          => /\ reply.error = "AUTHORIZATION"
             /\ reply.project = NoProject /\ reply.ids = {})
  /\ [][(reply'.op \in ProjectOps /\ reply'.role # "ADMIN")
          => projects' = projects /\ clock' = clock]_vars

\* a MEMBER asked to delete a live project: rejected, the project stays live
C23_Witness ==
  /\ reply.op = "delete" /\ reply.role = "MEMBER" /\ reply.id = 1
  /\ reply.error = "AUTHORIZATION"
  /\ findLive(projects, 1)

\* C29: the project a get, update or delete returns or changes belongs to
\* the platform of the calling admin, and a request that names a project of
\* another platform changes nothing.
C29_OwnPlatformOnly ==
  /\ []((reply.op \in {"get", "update", "delete"} /\ reply.error = "")
          => reply.project.platformId = reply.platformId)
  /\ [][(/\ reply'.op \in {"get", "update", "delete"}
         /\ projects[reply'.id].exists
         /\ projects[reply'.id].platformId # reply'.platformId)
          => projects' = projects]_vars

\* C30: an update or delete by an admin of an id that has no row or whose
\* row is soft-deleted fails with ENTITY_NOT_FOUND and changes no stored
\* project; the deleted timestamp of a row, once set, is never altered.
C30_MissingOrDeletedNotFound ==
  /\ [][(/\ reply'.op \in {"update", "delete"}
         /\ reply'.role = "ADMIN"
         /\ (~projects[reply'.id].exists \/ isGone(reply'.id)))
          => /\ reply'.error = "ENTITY_NOT_FOUND"
             /\ projects' = projects /\ clock' = clock]_vars
  /\ [][\A id \in ProjectIds :
          isGone(id) => projects'[id].deleted = projects[id].deleted]_vars

\* project 1 was deleted at time 1, project 2 at time 2; a second delete of
\* project 1 is not found and its timestamp is still 1
C30_Witness ==
  /\ reply.op = "delete" /\ reply.role = "ADMIN" /\ reply.id = 1
  /\ reply.error = "ENTITY_NOT_FOUND"
  /\ projects[1].deleted = 1 /\ projects[2].deleted = 2 /\ clock = 3

\* an update of a soft-deleted project is not found and leaves the mark
C30_UpdateWitness ==
  /\ reply.op = "update" /\ reply.role = "ADMIN" /\ reply.id = 1
  /\ reply.displayName = "b" /\ reply.error = "ENTITY_NOT_FOUND"
  /\ projects[1].deleted = 1 /\ projects[1].displayName = "a"

\* C24: the flags cmFlagsHooks.modify returns have MANAGE_PIECES_ENABLED set
\* to true for every request, whatever the platform's managePiecesEnabled.
C24_ManagePiecesAlwaysEnabled ==
  reply.op = "flags" => reply.flags.MANAGE_PIECES_ENABLED = "true"

\* the part that holds: requests that carry a platformId
C24_EnabledForPlatformRequests ==
  (reply.op = "flags" /\ reply.platformId # NoPlatform)
     => reply.flags.MANAGE_PIECES_ENABLED = "true"

(***************************************************************************)
(* Further claims about the resolver and the toggle (checked under Spec)   *)
(***************************************************************************)
\* C26: the resolver is deterministic, idempotent and read-only: its result
\* is a function of the config and the candidates, resolving the result
\* again returns it unchanged, the result is a sub-list of the candidates,
\* and the stored config is as it was before the call.
C26_ResolverIdempotentReadOnly ==
  last.op = "filter" =>
    /\ last.names = filterPieces(last.pre, last.includeHidden, last.platformId,
                                 last.pieces)
    /\ filterPieces(last.pre, last.includeHidden, last.platformId, last.names)
         = last.names
    /\ IsSubSeq(last.names, last.pieces)
    /\ platform = last.pre

\* ALLOWED [slack, gmail] over [gmail, sheets, slack] gives [gmail, slack]
C26_Witness ==
  /\ IsUserFilter(last)
  /\ last.pre = mkPlatform(TRUE, <<"slack", "gmail">>, "ALLOWED")
  /\ last.pieces = <<"gmail", "sheets", "slack">>
  /\ last.names = <<"gmail", "slack">>
  /\ platform = last.pre

\* C28: the single-piece toggle writes filteredPieceNames only: the behavior
\* stored after a toggle is the behavior stored before it.
C28_ToggleKeepsBehavior ==
  IsToggle(last) =>
    /\ platform.filteredPieceBehavior = last.pre.filteredPieceBehavior
    /\ platform.filteredPieceNames = last.names

\* under ALLOWED [slack], showing gmail stores [slack, gmail], still ALLOWED
C28_Witness ==
  /\ IsToggle(last) /\ last.pieceName = "gmail" /\ last.visible
  /\ last.pre = mkPlatform(TRUE, <<"slack">>, "ALLOWED")
  /\ platform = mkPlatform(TRUE, <<"slack", "gmail">>, "ALLOWED")

(***************************************************************************)
(* Claims about interleaved requests (checked under SpecConc)              *)
(***************************************************************************)
\* C25: the stored (filteredPieceNames, filteredPieceBehavior) pair is never
\* one whose list a toggle computed against a behavior other than the one
\* stored with it.
C25_NoMixedConfig ==
  conc.namesAgainst # "none" => behaviorOrBlocked(platform) = conc.namesAgainst

\* the list membership a toggle asks for under the behavior it read
wantsListed(slot) ==
  \/ slot.readBehavior = "BLOCKED" /\ ~slot.visible
  \/ slot.readBehavior = "ALLOWED" /\ slot.visible

\* C27: after two concurrent toggles of distinct pieces have both completed
\* (no bulk PATCH in between), the stored list reflects both requests.
C27_ConcurrentTogglesBothApplied ==
  (/\ \A i \in Slots : conc.slot[i].pc = "done"
   /\ conc.slot[1].pieceName # conc.slot[2].pieceName
   /\ ~conc.patched)
  => \A i \in Slots :
       includes(platform.filteredPieceNames, conc.slot[i].pieceName)
         <=> wantsListed(conc.slot[i])

====
